---- MODULE Spec2Model ----
(***************************************************************************)
(* Payroll-mass dashboard (src/app.py): the filter functions, the KPI      *)
(* block and the aggregate tables, as state machines over small record     *)
(* sets.  A DataFrame is a sequence of rows; a row is a function from      *)
(* column name to value.  Amounts and headcounts are integers.             *)
(***************************************************************************)
EXTENDS Integers, Sequences, FiniteSets, TLC

VARIABLES
    df,                   \* the normalized record set (result of load_data)
    selections,           \* a selections dict: column -> list of values
    fn,                   \* filter functions: which call has returned
    target_column,        \* get_available_options: its target_column
    S1, S2,               \* sequential filtering: the two dicts
    ret,                  \* filter functions: the returned value
    ret2, ret3,           \* sequential filtering: the other results
    pc,                   \* dashboard body: position in the script
    df_filtered,
    total_masa_salarial,
    cantidad_empleados,
    latest_month_name,
    costo_medio,
    masa_mensual_display,
    gerencia_data_display,
    clasificacion_data,
    table_display_data,
    summary_df_display,
    uploaded_file,        \* the uploaded table, as read_excel returns it
    load_error,           \* the st.error the load reported, or "none"
    phase,                \* the script: where the last run ended
    session_keys,         \* the keys present in st.session_state
    ms_selections,        \* st.session_state.ms_selections
    page_number,          \* st.session_state.page_number
    num_pages,            \* detail table: pages of the rendered data
    start_idx, end_idx,   \* detail table: the rendered slice
    origin                \* the user event the current runs answer

vars == <<df, selections, fn, target_column, S1, S2, ret, ret2, ret3, pc,
          df_filtered, total_masa_salarial, cantidad_empleados,
          latest_month_name, costo_medio, masa_mensual_display,
          gerencia_data_display, clasificacion_data, table_display_data,
          summary_df_display, uploaded_file, load_error, phase, session_keys,
          ms_selections, page_number, num_pages, start_idx, end_idx, origin>>

filterVars == <<df, selections, fn, target_column, S1, S2, ret, ret2, ret3>>

bodyVars == <<pc, df_filtered, total_masa_salarial, cantidad_empleados,
              latest_month_name, costo_medio, masa_mensual_display,
              gerencia_data_display, clasificacion_data, table_display_data,
              summary_df_display>>

callVars == <<selections, fn, target_column, S1, S2, ret, ret2, ret3>>

appVars == <<uploaded_file, load_error, phase, session_keys, ms_selections,
             page_number, num_pages, start_idx, end_idx, origin>>

(***************************************************************************)
(* Bounds of the model.                                                    *)
(***************************************************************************)
MaxRows == 3
MaxFiltered == 2

(***************************************************************************)
(* Program constants.                                                      *)
(***************************************************************************)
filter_cols == <<"Gerencia", "Nivel", "Clasificacion_Ministerio", "Relación",
                 "Mes", "Ceco", "Legajo">>

all_months_order == <<"Enero", "Febrero", "Marzo", "Abril", "Mayo", "Junio",
                      "Julio", "Agosto", "Septiembre", "Octubre", "Noviembre",
                      "Diciembre">>

meses_es == <<"Enero", "Febrero", "Marzo", "Abril", "Mayo", "Junio", "Julio",
              "Agosto", "Septiembre", "Octubre", "Noviembre", "Diciembre">>

NoDisponible == "no disponible"

(***************************************************************************)
(* Python's order on the strings the model uses (code-point order: digits, *)
(* upper case, lower case), as a rank.                                     *)
(***************************************************************************)
StringOrder == <<"100", "200", "7", "Abril", "Convenio", "Enero", "Jerarquico", "N1",
                 "Ops", "Planta", "Sales", "Total", "no disponible">>

StrRank == [s \in {StringOrder[i] : i \in DOMAIN StringOrder} |->
               CHOOSE i \in DOMAIN StringOrder : StringOrder[i] = s]

(***************************************************************************)
(* List helpers: membership, Series.unique() (first appearances, in        *)
(* order) and sorted(list, key=...) (stable).                              *)
(***************************************************************************)
Contains(list, x) == \E i \in DOMAIN list : list[i] = x

\* the element of a one-element set: in {e(x) : x \in {v}} the value v is
\* computed once, however often e uses x
TheValue(S) == CHOOSE v \in S : TRUE

Column(dataframe, col) ==
    TheValue({[i \in DOMAIN frame |-> frame[i][col]] : frame \in {dataframe}})

RECURSIVE unique(_)
unique(list) ==
    IF list = <<>> THEN <<>>
    ELSE <<Head(list)>> \o
         unique(SelectSeq(Tail(list), LAMBDA v : v # Head(list)))

RECURSIVE InsertByKey(_, _, _)
InsertByKey(x, list, key) ==
    IF list = <<>> THEN <<x>>
    ELSE IF key[x] < key[Head(list)] THEN <<x>> \o list
    ELSE <<Head(list)>> \o InsertByKey(x, Tail(list), key)

RECURSIVE sorted(_, _)
sorted(list, key) ==
    IF list = <<>> THEN <<>>
    ELSE InsertByKey(list[Len(list)],
                     sorted(SubSeq(list, 1, Len(list) - 1), key), key)

MesKey(list) ==
    [m \in {list[i] : i \in DOMAIN list} |->
        IF Contains(all_months_order, m)
        THEN (CHOOSE i \in DOMAIN all_months_order : all_months_order[i] = m) - 1
        ELSE -1]

(***************************************************************************)
(* Rows.  The model's DataFrames all have these columns; load_data gives   *)
(* every row its 'Mes' from its 'Mes_Num' through meses_es, and the        *)
(* placeholder 'no disponible' to an empty key column.                     *)
(***************************************************************************)
Columns == {filter_cols[i] : i \in DOMAIN filter_cols} \cup
           {"Mes_Num", "Total Mensual", "Dotación"}

NaN == "NaN"

Row(gerencia, clasificacion, ceco, mes_num, total_mensual, dotacion) ==
    [col \in Columns |->
        CASE col = "Gerencia" -> gerencia
          [] col = "Nivel" -> "N1"
          [] col = "Clasificacion_Ministerio" -> clasificacion
          [] col = "Relación" -> "Planta"
          [] col = "Mes" -> meses_es[mes_num]
          [] col = "Ceco" -> ceco
          [] col = "Legajo" -> "7"
          [] col = "Mes_Num" -> mes_num
          [] col = "Total Mensual" -> total_mensual
          [] col = "Dotación" -> dotacion]

BoundedSeq(S, n) == UNION {[1..k -> S] : k \in 0..n}

Range(list) == {list[i] : i \in DOMAIN list}

(***************************************************************************)
(* A Python dict is a mapping with an iteration order: its item list, a    *)
(* sequence of <<key, value>> pairs with distinct keys.                    *)
(***************************************************************************)
Orders(S) == {o \in [1..Cardinality(S) -> S] : Range(o) = S}

ItemLists(mapping) ==
    {[i \in DOMAIN o |-> <<o[i], mapping[o[i]]>>] : o \in Orders(DOMAIN mapping)}

Restrict(mapping, K) == [k \in K |-> mapping[k]]

(***************************************************************************)
(* apply_filters (lines 101-106): one pass over the dict's items; a        *)
(* non-empty list keeps the rows of the running frame whose value is in it.*)
(***************************************************************************)
isin(dataframe, col, values) ==
    TheValue({SelectSeq(dataframe, LAMBDA row : Contains(accepted, row[col])) :
                  accepted \in {values}})

RECURSIVE apply_filters_noEmptyGuard(_, _)
apply_filters_noEmptyGuard(dataframe, items) ==
    IF items = <<>> THEN dataframe
    ELSE apply_filters_noEmptyGuard(
             isin(dataframe, items[1][1], items[1][2]), Tail(items))

RECURSIVE FilterEachOnOriginal(_, _, _)
FilterEachOnOriginal(original, _df, items) ==
    IF items = <<>> THEN _df
    ELSE FilterEachOnOriginal(original,
             IF items[1][2] # <<>>
             THEN isin(original, items[1][1], items[1][2]) ELSE _df,
             Tail(items))

apply_filters_lastFilterOnly(dataframe, items) ==
    FilterEachOnOriginal(dataframe, dataframe, items)

RECURSIVE apply_filters(_, _)
apply_filters(dataframe, items) ==
    IF items = <<>> THEN dataframe
    ELSE LET col == items[1][1]
             values == items[1][2]
         IN  apply_filters(IF values # <<>> THEN isin(dataframe, col, values)
                           ELSE dataframe,
                           Tail(items))

(***************************************************************************)
(* get_sorted_unique_options (lines 109-117).                              *)
(***************************************************************************)
dropna(list) == SelectSeq(list, LAMBDA v : v # NaN)

get_sorted_unique_options(dataframe, column_name) ==
    IF column_name \in Columns
    THEN TheValue({IF column_name = "Mes"
                   THEN sorted(unique_values, MesKey(unique_values))
                   ELSE sorted(unique_values, StrRank) :
                       unique_values \in
                           {SelectSeq(unique(dropna(Column(dataframe, column_name))),
                                      LAMBDA v : v # NoDisponible)}})
    ELSE <<>>

(***************************************************************************)
(* get_available_options (lines 119-124): the same pass, the target        *)
(* column's own item skipped.                                              *)
(***************************************************************************)
RECURSIVE FilterOthers(_, _, _)
FilterOthers(_df, items, target) ==
    IF items = <<>> THEN _df
    ELSE LET col == items[1][1]
             values == items[1][2]
         IN  FilterOthers(IF col # target /\ values # <<>>
                          THEN isin(_df, col, values) ELSE _df,
                          Tail(items), target)

get_available_options_ownSelectionApplied(dataframe, items, target) ==
    get_sorted_unique_options(apply_filters(dataframe, items), target)

get_available_options_othersIgnored(dataframe, items, target) ==
    get_sorted_unique_options(dataframe, target)

get_available_options(dataframe, items, target) ==
    get_sorted_unique_options(FilterOthers(dataframe, items, target), target)

(***************************************************************************)
(* The dashboard body's variables before the body has run.                 *)
(***************************************************************************)
ZeroRatio == [num |-> 0, den |-> 1]

BodyIdle ==
    /\ pc = "idle"
    /\ df_filtered = <<>>
    /\ total_masa_salarial = 0
    /\ cantidad_empleados = 0
    /\ latest_month_name = "N/A"
    /\ costo_medio = ZeroRatio
    /\ masa_mensual_display = <<>>
    /\ gerencia_data_display = <<>>
    /\ clasificacion_data = <<>>
    /\ table_display_data = <<>>
    /\ summary_df_display = <<>>

AppIdle ==
    /\ uploaded_file = <<>>
    /\ load_error = "none"
    /\ phase = "idle"
    /\ session_keys = {}
    /\ ms_selections = <<>>
    /\ page_number = 0
    /\ num_pages = 0
    /\ start_idx = 0
    /\ end_idx = 0
    /\ origin = "none"

FilterIdle ==
    /\ df = <<>>
    /\ selections = <<>>
    /\ fn = "none"
    /\ target_column = "none"
    /\ S1 = <<>>
    /\ S2 = <<>>
    /\ ret = <<>>
    /\ ret2 = <<>>
    /\ ret3 = <<>>

(***************************************************************************)
(* The filter functions on bounded inputs: a record set of at most MaxRows *)
(* rows that differ in Gerencia, Ceco and month, and a selections dict     *)
(* over Gerencia, Ceco or both.                                            *)
(***************************************************************************)
FilterRows ==
    {Row(g, "Convenio", ceco, m, 1, 1) :
        g \in {"Ops", "Sales"}, ceco \in {"100", NoDisponible}, m \in {1, 4}}

SelectionLists(col) ==
    CASE col = "Gerencia" -> {<<>>, <<"Ops">>, <<"Sales">>, <<"Ops", "Sales">>}
      [] col = "Ceco" -> {<<>>, <<"100">>}

SelectionDicts ==
    UNION {{m \in [K -> UNION {SelectionLists(col) : col \in K}] :
               \A col \in K : m[col] \in SelectionLists(col)} :
           K \in SUBSET {"Gerencia", "Ceco"}}

TargetColumns == {filter_cols[i] : i \in DOMAIN filter_cols} \cup {"Sexo"}

InitFilter ==
    /\ df \in BoundedSeq(FilterRows, MaxRows)
    /\ selections \in SelectionDicts
    /\ fn = "none"
    /\ target_column = "none"
    /\ S1 = <<>>
    /\ S2 = <<>>
    /\ ret = <<>>
    /\ ret2 = <<>>
    /\ ret3 = <<>>
    /\ BodyIdle
    /\ AppIdle

CallApplyFilters ==
    /\ fn = "none"
    /\ \E items \in ItemLists(selections) :
           ret' = apply_filters(df, items)
    /\ fn' = "apply_filters"
    /\ UNCHANGED <<df, selections, target_column, S1, S2, ret2, ret3>>
    /\ UNCHANGED bodyVars
    /\ UNCHANGED appVars

CallGetAvailableOptions ==
    /\ fn = "none"
    /\ \E target \in TargetColumns, items \in ItemLists(selections) :
           /\ ret' = get_available_options(df, items, target)
           /\ target_column' = target
    /\ fn' = "get_available_options"
    /\ UNCHANGED <<df, selections, S1, S2, ret2, ret3>>
    /\ UNCHANGED bodyVars
    /\ UNCHANGED appVars

CallSequential ==
    /\ fn = "none"
    /\ \E K \in SUBSET DOMAIN selections :
           LET first == Restrict(selections, K)
               second == Restrict(selections, DOMAIN selections \ K)
           IN  \E items1 \in ItemLists(first), items2 \in ItemLists(second) :
                   /\ S1' = first
                   /\ S2' = second
                   /\ ret' = apply_filters(apply_filters(df, items1), items2)
                   /\ ret2' = apply_filters(apply_filters(df, items2), items1)
                   /\ ret3' = apply_filters(df, items1 \o items2)
    /\ fn' = "sequential"
    /\ UNCHANGED <<df, selections, target_column>>
    /\ UNCHANGED bodyVars
    /\ UNCHANGED appVars

NextFilter == CallApplyFilters \/ CallGetAvailableOptions \/ CallSequential

SpecFilter == InitFilter /\ [][NextFilter]_vars

(***************************************************************************)
(* Series and DataFrame helpers of the dashboard body.                     *)
(***************************************************************************)
RECURSIVE SumColumn(_, _)
SumColumn(dataframe, col) ==
    IF dataframe = <<>> THEN 0
    ELSE dataframe[1][col] + SumColumn(Tail(dataframe), col)

MaxOf(S) == CHOOSE x \in S : \A y \in S : y <= x

\* a / b on numbers: a ratio, compared by value; den = 0 marks the
\* undefined result (inf, nan or ZeroDivisionError) of dividing by zero.
TrueDiv(a, b) == [num |-> a, den |-> b]

IsUndefined(q) == q.den = 0

RatioEquals(q, a, b) == q.den # 0 /\ b # 0 /\ q.num * b = a * q.den

\* DataFrame.groupby(by) with sort=True: the keys in sorted order.
groupby_keys(dataframe, by) == sorted(unique(dropna(Column(dataframe, by))), StrRank)

Group(dataframe, by, key) == SelectSeq(dataframe, LAMBDA row : row[by] = key)

groupby_sum_firstRowOnly(dataframe, by) ==
    LET keys == groupby_keys(dataframe, by)
    IN  [i \in DOMAIN keys |->
            (by :> keys[i]) @@
            ("Total Mensual" :> Group(dataframe, by, keys[i])[1]["Total Mensual"])]

\* df.groupby(by)['Total Mensual'].sum().reset_index()
groupby_sum(dataframe, by) ==
    LET keys == groupby_keys(dataframe, by)
    IN  [i \in DOMAIN keys |->
            (by :> keys[i]) @@
            ("Total Mensual" :> SumColumn(Group(dataframe, by, keys[i]), "Total Mensual"))]

IsOrdered(frame, col, ascending) ==
    \A i, j \in DOMAIN frame :
        i < j => IF ascending THEN frame[i][col] <= frame[j][col]
                 ELSE frame[i][col] >= frame[j][col]

Permutations_(frame) ==
    {[i \in DOMAIN frame |-> frame[o[i]]] : o \in Orders(DOMAIN frame)}

sort_values_ascendingAlways(frame, col, ascending) ==
    {p \in Permutations_(frame) : IsOrdered(p, col, TRUE)}

\* sort_values(col, ascending=...): the default sort is not stable, so rows
\* with equal values may come out in any order.
sort_values(frame, col, ascending) ==
    {p \in Permutations_(frame) : IsOrdered(p, col, ascending)}

Project(frame, cols) == [i \in DOMAIN frame |-> [c \in cols |-> frame[i][c]]]

Rename(frame, old, new) ==
    [i \in DOMAIN frame |->
        [c \in (DOMAIN frame[i] \ {old}) \cup {new} |->
            IF c = new THEN frame[i][old] ELSE frame[i][c]]]

\* if not frame.empty: append {'<key>': 'Total', 'Total Mensual': sum}
with_total_row(frame, key_col) ==
    IF frame # <<>>
    THEN Append(frame, (key_col :> "Total") @@
                       ("Total Mensual" :> SumColumn(frame, "Total Mensual")))
    ELSE frame

(***************************************************************************)
(* The KPI block (lines 235-244).                                          *)
(***************************************************************************)
df_latest_month(dataframe) ==
    LET latest_month_num == MaxOf(Range(Column(dataframe, "Mes_Num")))
    IN  SelectSeq(dataframe, LAMBDA row : row["Mes_Num"] = latest_month_num)

compute_cantidad_empleados_allMonths(dataframe) ==
    IF dataframe # <<>> THEN SumColumn(dataframe, "Dotación") ELSE 0

compute_cantidad_empleados(dataframe) ==
    IF dataframe # <<>>
    THEN SumColumn(df_latest_month(dataframe), "Dotación")
    ELSE 0

compute_latest_month_name_defaultsToEnero(dataframe) ==
    IF dataframe # <<>> /\ df_latest_month(dataframe) # <<>>
    THEN df_latest_month(dataframe)[1]["Mes"]
    ELSE meses_es[1]

compute_latest_month_name(dataframe) ==
    IF dataframe # <<>> /\ df_latest_month(dataframe) # <<>>
    THEN df_latest_month(dataframe)[1]["Mes"]
    ELSE "N/A"

compute_costo_medio_unguarded(total, cantidad) == TrueDiv(total, cantidad)

compute_costo_medio(total, cantidad) ==
    IF cantidad > 0 THEN TrueDiv(total, cantidad) ELSE ZeroRatio

(***************************************************************************)
(* The aggregate tables (lines 258-292, 305-322, 335-371).                 *)
(***************************************************************************)
\* groupby('Mes').agg({'Total Mensual': 'sum', 'Mes_Num': 'first'})
groupby_mes(dataframe) ==
    LET sums == groupby_sum(dataframe, "Mes")
    IN  [i \in DOMAIN sums |->
            sums[i] @@
            ("Mes_Num" :> Group(dataframe, "Mes", sums[i]["Mes"])[1]["Mes_Num"])]

masa_mensual(dataframe) == sort_values(groupby_mes(dataframe), "Mes_Num", TRUE)

gerencia_data(dataframe) ==
    sort_values(groupby_sum(dataframe, "Gerencia"), "Total Mensual", FALSE)

with_porcentaje(frame) ==
    LET total == SumColumn(frame, "Total Mensual")
    IN  [i \in DOMAIN frame |->
            frame[i] @@
            ("Porcentaje" :> IF total > 0
                             THEN TrueDiv(frame[i]["Total Mensual"], total)
                             ELSE ZeroRatio)]

(***************************************************************************)
(* The classification-by-month cross-tab (lines 543-564).                  *)
(***************************************************************************)
\* the order of a two-level index (Mes_Num, Mes): by number, then by name
IndexKey(pairs) ==
    [p \in pairs |-> p[1] * (Len(StringOrder) + 1) + StrRank[p[2]]]

IndexPairs(dataframe) ==
    unique([i \in DOMAIN dataframe |->
               <<dataframe[i]["Mes_Num"], dataframe[i]["Mes"]>>])

pivot_index_byMonthName(dataframe) ==
    LET pairs == IndexPairs(dataframe)
    IN  sorted(pairs, [p \in Range(pairs) |-> StrRank[p[2]]])

\* index=['Mes_Num', 'Mes'] ... .sort_index(level='Mes_Num')
pivot_index(dataframe) ==
    LET pairs == IndexPairs(dataframe)
    IN  sorted(pairs, IndexKey(Range(pairs)))

\* pd.pivot_table(values='Total Mensual', index=['Mes_Num', 'Mes'],
\*                columns='Clasificacion_Ministerio', aggfunc='sum',
\*                fill_value=0) ... .reset_index(level='Mes_Num', drop=True)
\* and then .reset_index(): one row per month, 'Mes' a column again
pivot_table(dataframe) ==
    LET index == pivot_index(dataframe)
        columns == groupby_keys(dataframe, "Clasificacion_Ministerio")
    IN  [i \in DOMAIN index |->
            [c \in {"Mes"} \cup Range(columns) |->
                IF c = "Mes" THEN index[i][2]
                ELSE SumColumn(
                         SelectSeq(dataframe,
                                   LAMBDA row :
                                       /\ row["Mes_Num"] = index[i][1]
                                       /\ row["Mes"] = index[i][2]
                                       /\ row["Clasificacion_Ministerio"] = c),
                         "Total Mensual")]]

RECURSIVE SumCells(_, _)
SumCells(row, cols) ==
    IF cols = {} THEN 0
    ELSE LET c == CHOOSE x \in cols : TRUE
         IN  row[c] + SumCells(row, cols \ {c})

\* select_dtypes(include=np.number).columns
numeric_cols(frame) == DOMAIN frame[1] \ {"Mes"}

with_total_general(frame) ==
    IF "Total general" \notin DOMAIN frame[1] /\ numeric_cols(frame) # {}
    THEN [i \in DOMAIN frame |->
             frame[i] @@
             ("Total general" :> SumCells(frame[i], numeric_cols(frame)))]
    ELSE frame

\* the numeric column sums, appended as a row whose 'Mes' is 'Total'
with_summary_total_row(frame) ==
    Append(frame, [c \in DOMAIN frame[1] |->
                      IF c = "Mes" THEN "Total" ELSE SumColumn(frame, c)])

summary_display(dataframe) ==
    LET summary_df_filtered == pivot_table(dataframe)
    IN  IF summary_df_filtered # <<>>
        THEN with_summary_total_row(with_total_general(summary_df_filtered))
        ELSE summary_df_filtered

(***************************************************************************)
(* The dashboard body as a function of the filtered record set: at most    *)
(* MaxFiltered rows that differ in Gerencia, classification, month, amount *)
(* and headcount.                                                          *)
(***************************************************************************)
BodyRows ==
    {Row(g, c, "100", m, a, d) :
        g \in {"Ops", "Sales"}, c \in {"Convenio", "Jerarquico"}, m \in {1, 4},
        a \in {-1, 1, 2}, d \in {0, 1}}

InitBody ==
    /\ FilterIdle
    /\ pc = "kpi"
    /\ df_filtered \in BoundedSeq(BodyRows, MaxFiltered)
    /\ total_masa_salarial = 0
    /\ cantidad_empleados = 0
    /\ latest_month_name = "N/A"
    /\ costo_medio = ZeroRatio
    /\ masa_mensual_display = <<>>
    /\ gerencia_data_display = <<>>
    /\ clasificacion_data = <<>>
    /\ table_display_data = <<>>
    /\ summary_df_display = <<>>
    /\ AppIdle

KpiBlock ==
    /\ pc = "kpi"
    /\ total_masa_salarial' = SumColumn(df_filtered, "Total Mensual")
    /\ cantidad_empleados' = compute_cantidad_empleados(df_filtered)
    /\ latest_month_name' = compute_latest_month_name(df_filtered)
    /\ costo_medio' = compute_costo_medio(total_masa_salarial', cantidad_empleados')
    /\ pc' = "branch"
    /\ UNCHANGED <<df_filtered, masa_mensual_display, gerencia_data_display,
                   clasificacion_data, table_display_data, summary_df_display>>
    /\ UNCHANGED filterVars
    /\ UNCHANGED appVars

EmptyWarning ==
    /\ pc = "branch"
    /\ df_filtered = <<>>
    /\ pc' = "done"
    /\ UNCHANGED <<df_filtered, total_masa_salarial, cantidad_empleados,
                   latest_month_name, costo_medio, masa_mensual_display,
                   gerencia_data_display, clasificacion_data, table_display_data,
                   summary_df_display>>
    /\ UNCHANGED filterVars
    /\ UNCHANGED appVars

MonthlyEvolution ==
    /\ pc = "branch"
    /\ df_filtered # <<>>
    /\ \E frame \in masa_mensual(df_filtered) :
           masa_mensual_display' =
               with_total_row(Project(frame, {"Mes", "Total Mensual"}), "Mes")
    /\ pc' = "gerencia"
    /\ UNCHANGED <<df_filtered, total_masa_salarial, cantidad_empleados,
                   latest_month_name, costo_medio, gerencia_data_display,
                   clasificacion_data, table_display_data, summary_df_display>>
    /\ UNCHANGED filterVars
    /\ UNCHANGED appVars

ByGerencia ==
    /\ pc = "gerencia"
    /\ \E frame \in gerencia_data(df_filtered) :
           gerencia_data_display' = with_total_row(frame, "Gerencia")
    /\ pc' = "clasificacion"
    /\ UNCHANGED <<df_filtered, total_masa_salarial, cantidad_empleados,
                   latest_month_name, costo_medio, masa_mensual_display,
                   clasificacion_data, table_display_data, summary_df_display>>
    /\ UNCHANGED filterVars
    /\ UNCHANGED appVars

ByClasificacion ==
    /\ pc = "clasificacion"
    /\ \E frame \in sort_values(groupby_sum(df_filtered, "Clasificacion_Ministerio"),
                                "Total Mensual", FALSE) :
           /\ clasificacion_data' = with_porcentaje(frame)
           /\ table_display_data' =
                  with_total_row(
                      Project(Rename(clasificacion_data',
                                     "Clasificacion_Ministerio", "Clasificación"),
                              {"Clasificación", "Total Mensual"}),
                      "Clasificación")
    /\ pc' = "summary"
    /\ UNCHANGED <<df_filtered, total_masa_salarial, cantidad_empleados,
                   latest_month_name, costo_medio, masa_mensual_display,
                   gerencia_data_display, summary_df_display>>
    /\ UNCHANGED filterVars
    /\ UNCHANGED appVars

\* lines 540-564, the last table of the else branch (the concept pivots and
\* the detail table before it read df_filtered and write none of these)
AnnualSummary ==
    /\ pc = "summary"
    /\ summary_df_display' = summary_display(df_filtered)
    /\ pc' = "done"
    /\ UNCHANGED <<df_filtered, total_masa_salarial, cantidad_empleados,
                   latest_month_name, costo_medio, masa_mensual_display,
                   gerencia_data_display, clasificacion_data, table_display_data>>
    /\ UNCHANGED filterVars
    /\ UNCHANGED appVars

NextBody ==
    \/ KpiBlock
    \/ EmptyWarning
    \/ MonthlyEvolution
    \/ ByGerencia
    \/ ByClasificacion
    \/ AnnualSummary

SpecBody == InitBody /\ [][NextBody]_vars

(***************************************************************************)
(* load_data (lines 128-163).  A cell of the uploaded sheet is a text, a   *)
(* number, a date or a missing value.  A text is the sequence of its       *)
(* pieces: each piece is one whitespace character or a run without         *)
(* whitespace (a period text is given character by character).             *)
(***************************************************************************)
MaxRaw == 2

Text(pieces) == [kind |-> "str", pieces |-> pieces]

Number(n) == [kind |-> "num", value |-> n]

Missing == [kind |-> "nan"]

Timestamp(y, m) == [kind |-> "datetime", year |-> y, month |-> m]

NaT == [kind |-> "nat"]

IsSpace(piece) == piece \in {" "}

RECURSIVE lstrip(_)
lstrip(pieces) ==
    IF pieces # <<>> /\ IsSpace(Head(pieces)) THEN lstrip(Tail(pieces)) ELSE pieces

RECURSIVE rstrip(_)
rstrip(pieces) ==
    IF pieces # <<>> /\ IsSpace(pieces[Len(pieces)])
    THEN rstrip(SubSeq(pieces, 1, Len(pieces) - 1))
    ELSE pieces

\* str.strip()
strip(pieces) == rstrip(lstrip(pieces))

\* the Python string of a text
RECURSIVE Join(_)
Join(pieces) == IF pieces = <<>> THEN "" ELSE Head(pieces) \o Join(Tail(pieces))

Digits == <<"0", "1", "2", "3", "4", "5", "6", "7", "8", "9">>

AllDigits(chars) == chars # <<>> /\ \A i \in DOMAIN chars : Contains(Digits, chars[i])

DigitValue(ch) == (CHOOSE i \in DOMAIN Digits : Digits[i] = ch) - 1

RECURSIVE ParseInt(_)
ParseInt(chars) ==
    IF chars = <<>> THEN 0
    ELSE 10 * ParseInt(SubSeq(chars, 1, Len(chars) - 1)) + DigitValue(chars[Len(chars)])

\* the date of a text 'YYYY-MM', or NaT
parse_datetime(chars) ==
    IF /\ Len(chars) = 7
       /\ AllDigits(SubSeq(chars, 1, 4))
       /\ chars[5] = "-"
       /\ AllDigits(SubSeq(chars, 6, 7))
       /\ ParseInt(SubSeq(chars, 6, 7)) \in 1..12
    THEN Timestamp(ParseInt(SubSeq(chars, 1, 4)), ParseInt(SubSeq(chars, 6, 7)))
    ELSE NaT

to_datetime_unparsedAsJanuary(cell) ==
    CASE cell.kind = "datetime" -> cell
      [] cell.kind = "str" ->
             IF parse_datetime(cell.pieces) = NaT
             THEN Timestamp(2025, 1)
             ELSE parse_datetime(cell.pieces)
      [] cell.kind = "nan" -> NaT

\* pd.to_datetime(..., errors='coerce') on one cell of the period column
to_datetime(cell) ==
    CASE cell.kind = "datetime" -> cell
      [] cell.kind = "str" -> parse_datetime(cell.pieces)
      [] cell.kind = "nan" -> NaT

\* pd.to_numeric(..., errors='coerce') on one cell
to_numeric(cell) ==
    CASE cell.kind = "num" -> cell
      [] cell.kind = "str" ->
             IF AllDigits(cell.pieces) THEN Number(ParseInt(cell.pieces)) ELSE Missing
      [] cell.kind = "nan" -> Missing

\* .astype(str) on one cell of an object column: the pieces of str(value);
\* str(float('nan')) is 'nan'
astype_str(cell) ==
    CASE cell.kind = "str" -> cell.pieces
      [] cell.kind = "num" -> <<ToString(cell.value)>>
      [] cell.kind = "nan" -> <<"nan">>

\* pd.to_numeric(errors='coerce').astype('Int64').astype(str)
\*   .replace('<NA>', 'no disponible')
Int64_str(cell) ==
    LET n == to_numeric(cell)
        text == IF n = Missing THEN "<NA>" ELSE ToString(n.value)
    IN  IF text = "<NA>" THEN Text(<<"no", " ", "disponible">>) ELSE Text(<<text>>)

\* one cell of a key filter column present in the sheet (lines 152-154)
clean_key(cell, col) ==
    LET first == IF col \in {"Ceco", "Legajo"} THEN Int64_str(cell) ELSE cell
        text == Join(strip(astype_str(first)))
    IN  IF text \in {"", "None", "nan", "nan.0", "0"} THEN NoDisponible ELSE text

key_filter_columns ==
    <<"Gerencia", "Nivel", "Clasificacion_Ministerio", "Relación", "Ceco", "Legajo">>

\* pd.to_numeric(errors='coerce').fillna(0).astype(int)
clean_dotacion(cell) ==
    LET n == to_numeric(cell) IN IF n = Missing THEN 0 ELSE n.value

\* lines 136-138: the stripped column names, 'Unnamed: 0' dropped
column_names(file) == [i \in DOMAIN file.columns |-> Join(strip(file.columns[i]))]

ColumnIndex(file, name) ==
    CHOOSE i \in DOMAIN file.columns : column_names(file)[i] = name

read_frame(file) ==
    LET names == Range(column_names(file)) \ {"Unnamed: 0"}
    IN  [r \in DOMAIN file.rows |->
            [c \in names |-> file.rows[r][ColumnIndex(file, c)]]]

\* lines 142-146
with_period(frame) ==
    LET parsed == [r \in DOMAIN frame |->
                      [frame[r] EXCEPT !["Período"] = to_datetime(@)]]
        kept == SelectSeq(parsed, LAMBDA row : row["Período"] # NaT)
    IN  [r \in DOMAIN kept |->
            kept[r] @@
            ("Mes_Num" :> kept[r]["Período"].month) @@
            ("Mes" :> meses_es[kept[r]["Período"].month])]

\* line 148
rename_columns(frame) ==
    LET RenameIfPresent(f, old, new) ==
            IF f # <<>> /\ old \in DOMAIN f[1] THEN Rename(f, old, new) ELSE f
    IN  RenameIfPresent(
            RenameIfPresent(frame, "Clasificación Ministerio de Hacienda",
                            "Clasificacion_Ministerio"),
            "Nro. de Legajo", "Legajo")

\* lines 149-159; a numeric cell no line touches is its number
clean_columns(frame) ==
    [r \in DOMAIN frame |->
        [c \in DOMAIN frame[r] \cup Range(key_filter_columns) |->
            IF c \in Range(key_filter_columns)
            THEN IF c \in DOMAIN frame[r]
                 THEN clean_key(frame[r][c], c)
                 ELSE NoDisponible
            ELSE IF c = "Dotación" THEN clean_dotacion(frame[r][c])
            ELSE IF c = "Total Mensual" THEN frame[r][c].value
            ELSE frame[r][c]]]

\* line 161
dropna_subset(frame, subset) ==
    SelectSeq(frame, LAMBDA row : \A c \in subset : row[c] # NaN)

load_data(file) ==
    IF file.sheet # "masa_salarial"
    THEN [error |-> "read", df |-> <<>>]
    ELSE IF "Período" \notin Range(column_names(file)) \ {"Unnamed: 0"}
    THEN [error |-> "periodo", df |-> <<>>]
    ELSE [error |-> "none",
          df |-> dropna_subset(
                     clean_columns(rename_columns(with_period(read_frame(file)))),
                     {"Gerencia", "Nivel", "Clasificacion_Ministerio", "Relación"})]

df_empty_never(dataframe) == FALSE

\* df.empty
df_empty(dataframe) == dataframe = <<>>

(***************************************************************************)
(* The uploaded sheets: four column layouts, and rows that differ in the   *)
(* period, Gerencia and Ceco cells.                                         *)
(***************************************************************************)
Layouts == {"plain", "indexed", "misspelled", "no_gerencia"}

Fields(layout) ==
    (IF layout = "indexed" THEN <<"index">> ELSE <<>>) \o
    <<"period">> \o
    (IF layout = "no_gerencia" THEN <<>> ELSE <<"gerencia">>) \o
    <<"nivel", "clasificacion", "relacion", "ceco", "legajo", "total", "dotacion">>

Label(layout, field) ==
    CASE field = "index" -> <<"Unnamed:", " ", "0">>
      [] field = "period" ->
             IF layout = "indexed" THEN <<" ", "Período", " ">>
             ELSE IF layout = "misspelled" THEN <<"Periodo">>
             ELSE <<"Período">>
      [] field = "gerencia" ->
             IF layout = "indexed" THEN <<"Gerencia", " ">> ELSE <<"Gerencia">>
      [] field = "nivel" -> <<"Nivel">>
      [] field = "clasificacion" ->
             <<"Clasificación", " ", "Ministerio", " ", "de", " ", "Hacienda">>
      [] field = "relacion" -> <<"Relación">>
      [] field = "ceco" -> <<"Ceco">>
      [] field = "legajo" -> <<"Nro.", " ", "de", " ", "Legajo">>
      [] field = "total" -> <<"Total", " ", "Mensual">>
      [] field = "dotacion" -> <<"Dotación">>

PeriodCells ==
    {Timestamp(2025, 1), Text(<<"2", "0", "2", "5", "-", "0", "4">>),
     Text(<<"not-a-date">>), Missing}

GerenciaCells == {Text(<<"Ops">>), Text(<<" ", "Sales", " ">>), Text(<<" ">>), Missing}

CecoCells == {Number(100), Missing}

RawRecords == [period : PeriodCells, gerencia : GerenciaCells, ceco : CecoCells]

RawCell(rec, field, r) ==
    CASE field = "index" -> Number(r - 1)
      [] field = "period" -> rec.period
      [] field = "gerencia" -> rec.gerencia
      [] field = "nivel" -> Text(<<"N1">>)
      [] field = "clasificacion" -> Text(<<"Convenio">>)
      [] field = "relacion" -> Text(<<"Planta">>)
      [] field = "ceco" -> rec.ceco
      [] field = "legajo" -> Number(7)
      [] field = "total" -> Number(2)
      [] field = "dotacion" -> Number(1)

Sheet(name, layout, recs) ==
    [sheet |-> name,
     columns |-> [i \in DOMAIN Fields(layout) |-> Label(layout, Fields(layout)[i])],
     rows |-> [r \in DOMAIN recs |->
                  [i \in DOMAIN Fields(layout) |->
                      RawCell(recs[r], Fields(layout)[i], r)]]]

RawTables ==
    {Sheet("masa_salarial", layout, recs) :
         layout \in Layouts, recs \in BoundedSeq(RawRecords, MaxRaw)}
    \cup {Sheet("Hoja1", "plain", <<>>)}

(***************************************************************************)
(* The script from the upload to the first initialisation of the filter    *)
(* selections (lines 168-191).                                             *)
(***************************************************************************)
pageVars == <<page_number, num_pages, start_idx, end_idx>>

\* a dict built over filter_cols iterates in that order
Items(mapping) ==
    [i \in DOMAIN filter_cols |-> <<filter_cols[i], mapping[filter_cols[i]]>>]

\* {col: get_sorted_unique_options(df, col) for col in filter_cols}
initial_selections(dataframe) ==
    [col \in Range(filter_cols) |-> get_sorted_unique_options(dataframe, col)]

InitLoad ==
    /\ FilterIdle
    /\ BodyIdle
    /\ uploaded_file \in RawTables
    /\ load_error = "none"
    /\ phase = "upload"
    /\ session_keys = {}
    /\ ms_selections = <<>>
    /\ page_number = 0
    /\ num_pages = 0
    /\ start_idx = 0
    /\ end_idx = 0
    /\ origin = "none"

\* line 174
LoadData ==
    /\ phase = "upload"
    /\ LET result == load_data(uploaded_file)
       IN  /\ df' = result.df
           /\ load_error' = result.error
    /\ phase' = "loaded"
    /\ UNCHANGED <<uploaded_file, session_keys, ms_selections, origin>>
    /\ UNCHANGED pageVars
    /\ UNCHANGED callVars
    /\ UNCHANGED bodyVars

\* lines 176-178
LoadGuard ==
    /\ phase = "loaded"
    /\ phase' = IF df_empty(df) THEN "stopped" ELSE "ready"
    /\ UNCHANGED <<df, uploaded_file, load_error, session_keys, ms_selections, origin>>
    /\ UNCHANGED pageVars
    /\ UNCHANGED callVars
    /\ UNCHANGED bodyVars

\* lines 186-191
FirstRun ==
    /\ phase = "ready"
    /\ "ms_selections" \notin session_keys
    /\ ms_selections' = initial_selections(df)
    /\ session_keys' = session_keys \cup {"ms_selections"}
    /\ phase' = "rerun"
    /\ origin' = "load"
    /\ UNCHANGED <<df, uploaded_file, load_error>>
    /\ UNCHANGED pageVars
    /\ UNCHANGED callVars
    /\ UNCHANGED bodyVars

NextLoad == LoadData \/ LoadGuard \/ FirstRun

SpecLoad == InitLoad /\ [][NextLoad]_vars

(***************************************************************************)
(* The session (lines 182-231 and 514-527): every action is one run of the *)
(* script, from the top to st.rerun() or to the end.  A widget returns its *)
(* default, the pruned stored selection, unless it is the widget the user  *)
(* changed to start the run.  User events arrive on a rendered page.       *)
(***************************************************************************)
MaxSession == 2

PAGE_SIZE == 50

current_selection_unpruned(stored, available_options) == stored

current_selection_allAvailable(stored, available_options) == available_options

\* [sel for sel in ms_selections.get(col, []) if sel in available_options]
current_selection(stored, available_options) ==
    SelectSeq(stored, LAMBDA sel : Contains(available_options, sel))

\* lines 206-224, from the i-th filter on; changed is the widget the user
\* changed and value what it returns
RECURSIVE render_loop(_, _, _, _, _)
render_loop(dataframe, state, i, changed, value) ==
    IF i > Len(filter_cols) THEN state
    ELSE LET col == filter_cols[i]
             Selected(available_options) ==
                 IF col = changed
                 THEN value
                 ELSE current_selection(state[col], available_options)
         IN  TheValue(
                 {render_loop(dataframe, updated, i + 1, changed, value) :
                      updated \in
                          {[state EXCEPT ![col] = Selected(available_options)] :
                               available_options \in
                                   {get_available_options(dataframe, Items(state), col)}}})

\* lines 516-517
compute_num_pages(total_rows) ==
    (total_rows \div PAGE_SIZE) + (IF total_rows % PAGE_SIZE > 0 THEN 1 ELSE 0)

Min(a, b) == IF a < b THEN a ELSE b

\* lines 514-527: the detail table of a non-empty filtered set; click is
\* the page button pressed to start the run, if any
Paginate(filtered, click) ==
    LET stored == IF "page_number" \in session_keys THEN page_number ELSE 0
        total_rows == Len(filtered)
        pages == compute_num_pages(total_rows)
        after_prev == IF click = "anterior" /\ stored > 0 THEN stored - 1 ELSE stored
        after_next == IF click = "siguiente" /\ after_prev < pages - 1
                      THEN after_prev + 1
                      ELSE after_prev
    IN  /\ session_keys' = session_keys \cup {"page_number"}
        /\ num_pages' = pages
        /\ page_number' = after_next
        /\ start_idx' = after_next * PAGE_SIZE
        /\ end_idx' = Min(after_next * PAGE_SIZE + PAGE_SIZE, total_rows)

\* lines 203-231 and on: the render loop, the change detection and, when
\* nothing changed, the filtered set and the detail table.  A run that
\* ends in st.rerun() leaves no df_filtered.
Run(changed, value, click) ==
    \E new_selections \in {render_loop(df, ms_selections, 1, changed, value)} :
        /\ ms_selections' = new_selections
        /\ IF ms_selections # new_selections
           THEN /\ phase' = "rerun"
                /\ df_filtered' = <<>>
                /\ UNCHANGED session_keys
                /\ UNCHANGED pageVars
           ELSE /\ phase' = "rendered"
                /\ df_filtered' = apply_filters(df, Items(new_selections))
                /\ IF df_filtered' # <<>>
                   THEN Paginate(df_filtered', click)
                   ELSE UNCHANGED session_keys /\ UNCHANGED pageVars

sessionFrame ==
    <<df, uploaded_file, load_error, callVars, pc, total_masa_salarial,
      cantidad_empleados, latest_month_name, costo_medio, masa_mensual_display,
      gerencia_data_display, clasificacion_data, table_display_data,
      summary_df_display>>

\* the run st.rerun() asked for
RerunPass ==
    /\ phase = "rerun"
    /\ Run("none", <<>>, "none")
    /\ UNCHANGED origin
    /\ UNCHANGED sessionFrame

RECURSIVE Pick(_, _, _)
Pick(list, I, k) ==
    IF k > Len(list) THEN <<>>
    ELSE (IF k \in I THEN <<list[k]>> ELSE <<>>) \o Pick(list, I, k + 1)

Sublists(list) == {Pick(list, I, 1) : I \in SUBSET DOMAIN list}

\* the widgets the user changes: the dimensions that vary in the record sets
UserColumns == {"Gerencia", "Ceco"}

\* the user changes one multiselect to another choice among its options
ChangeFilter ==
    /\ phase = "rendered"
    /\ \E col \in UserColumns :
           \E value \in Sublists(get_available_options(df, Items(ms_selections), col)) :
               /\ value # ms_selections[col]
               /\ Run(col, value, "none")
    /\ origin' = "filter"
    /\ UNCHANGED sessionFrame

\* lines 193-197
ClickReset ==
    /\ phase = "rendered"
    /\ ms_selections' = initial_selections(df)
    /\ phase' = "rerun"
    /\ origin' = "reset"
    /\ df_filtered' = <<>>
    /\ UNCHANGED session_keys
    /\ UNCHANGED pageVars
    /\ UNCHANGED sessionFrame

\* lines 520-521, in a run in which no filter widget changed
ClickAnterior ==
    /\ phase = "rendered"
    /\ df_filtered # <<>>
    /\ Run("none", <<>>, "anterior")
    /\ origin' = "page"
    /\ UNCHANGED sessionFrame

\* lines 522-523
ClickSiguiente ==
    /\ phase = "rendered"
    /\ df_filtered # <<>>
    /\ Run("none", <<>>, "siguiente")
    /\ origin' = "page"
    /\ UNCHANGED sessionFrame

(***************************************************************************)
(* The normalized record sets of the session: rows that differ in Gerencia *)
(* and Ceco (a cost centre may be the placeholder), the first row possibly *)
(* repeated to fill more than one page of the detail table.                *)
(***************************************************************************)
SessionRows ==
    {Row(g, "Convenio", c, 1, 1, 1) :
         g \in {"Ops", "Sales"}, c \in {"100", "200", NoDisponible}}

Copies == {1, PAGE_SIZE + 1}

Repeat(row, n) == [i \in 1..n |-> row]

SessionData ==
    {Repeat(rows[1], n) \o Tail(rows) :
         rows \in BoundedSeq(SessionRows, MaxSession) \ {<<>>}, n \in Copies}

InitSession ==
    /\ df \in SessionData
    /\ selections = <<>>
    /\ fn = "none"
    /\ target_column = "none"
    /\ S1 = <<>>
    /\ S2 = <<>>
    /\ ret = <<>>
    /\ ret2 = <<>>
    /\ ret3 = <<>>
    /\ BodyIdle
    /\ uploaded_file = <<>>
    /\ load_error = "none"
    /\ phase = "ready"
    /\ session_keys = {}
    /\ ms_selections = <<>>
    /\ page_number = 0
    /\ num_pages = 0
    /\ start_idx = 0
    /\ end_idx = 0
    /\ origin = "none"

NextSession ==
    \/ FirstRun
    \/ RerunPass
    \/ ChangeFilter
    \/ ClickReset
    \/ ClickAnterior
    \/ ClickSiguiente

SpecSession == InitSession /\ [][NextSession]_vars

\* st.rerun() starts the next run at once
SpecSessionFair == SpecSession /\ WF_vars(RerunPass)

(***************************************************************************)
(* What the filter claims speak of, stated on the rows themselves.         *)
(***************************************************************************)
Passes(row, mapping, cols) ==
    \A col \in cols :
        mapping[col] # <<>> => row[col] \in Range(mapping[col])

PassingRows(dataframe, mapping, cols) ==
    SelectSeq(dataframe, LAMBDA row : Passes(row, mapping, cols))

OtherColumns == DOMAIN selections \ {target_column}

ValuesPassingOthers ==
    {df[i][target_column] :
        i \in {j \in DOMAIN df : Passes(df[j], selections, OtherColumns)}}

\* C1: apply_filters(R, S) is exactly the rows of R whose value, for every
\* column with a non-empty list in S, is in that list (in R's order); with
\* every list empty it is R itself.
C1_ApplyFiltersExact ==
    fn = "apply_filters" =>
        /\ ret = PassingRows(df, selections, DOMAIN selections)
        /\ (\A col \in DOMAIN selections : selections[col] = <<>>) => ret = df

C1_Witness ==
    /\ fn = "apply_filters"
    /\ \E col \in DOMAIN selections : selections[col] = <<>>
    /\ \E col \in DOMAIN selections : selections[col] # <<>>
    /\ ret # <<>>
    /\ ret # df

\* C2 (as stated): get_available_options(R, S, D) is exactly the set of
\* D-values of the rows passing the other columns' selections.
C2_OptionsAreAllValues ==
    (fn = "get_available_options" /\ target_column \in Columns) =>
        Range(ret) = ValuesPassingOthers

\* C2 (amended): get_available_options(R, S, D) is exactly the set of
\* D-values, other than the placeholder 'no disponible', of the rows
\* passing the other columns' selections, each listed once.
C2_OptionsExceptPlaceholder ==
    (fn = "get_available_options" /\ target_column \in Columns) =>
        /\ Range(ret) = ValuesPassingOthers \ {NoDisponible}
        /\ Cardinality(Range(ret)) = Len(ret)

C2_Witness ==
    /\ fn = "get_available_options"
    /\ target_column = "Ceco"
    /\ "Ceco" \in DOMAIN selections /\ selections["Ceco"] # <<>>
    /\ NoDisponible \in ValuesPassingOthers
    /\ ret = <<"100">>
    /\ \E i \in DOMAIN df : ~Passes(df[i], selections, OtherColumns)

\* C3: every option v that get_available_options(R, S, D) returns is the
\* D-value of a row of R passing the other columns' selections, and S with
\* D's list replaced by [v] filters R to a non-empty result.
C3_NoDeadOption ==
    (fn = "get_available_options" /\ target_column \in Columns) =>
        \A k \in DOMAIN ret :
            /\ \E i \in DOMAIN df :
                   /\ df[i][target_column] = ret[k]
                   /\ Passes(df[i], selections, OtherColumns)
            /\ \A items \in ItemLists((target_column :> <<ret[k]>>) @@ selections) :
                   apply_filters(df, items) # <<>>

C3_Witness ==
    /\ fn = "get_available_options"
    /\ target_column \in DOMAIN selections
    /\ ret # <<>>
    /\ \E i \in DOMAIN df :
           /\ df[i][target_column] # NoDisponible
           /\ ~Contains(ret, df[i][target_column])

\* C4: for S1, S2 on disjoint columns, filtering by S1 then S2, by S2 then
\* S1, and once by the two dicts combined give the same rows.
C4_SequentialEqualsCombined ==
    fn = "sequential" => (ret = ret3 /\ ret2 = ret3)

C4_Witness ==
    /\ fn = "sequential"
    /\ \E col \in DOMAIN S1 : S1[col] # <<>>
    /\ \E col \in DOMAIN S2 : S2[col] # <<>>
    /\ ret # PassingRows(df, S1, DOMAIN S1)
    /\ ret # PassingRows(df, S2, DOMAIN S2)
    /\ ret # <<>>

(***************************************************************************)
(* What the body claims speak of, stated on the filtered rows themselves.  *)
(***************************************************************************)
RECURSIVE SumOver(_, _, _)
SumOver(frame, I, col) ==
    IF I = {} THEN 0
    ELSE LET i == CHOOSE k \in I : TRUE
         IN  frame[i][col] + SumOver(frame, I \ {i}, col)

RowsWhere(col, value) == {i \in DOMAIN df_filtered : df_filtered[i][col] = value}

IsZero(q) == q.den # 0 /\ q.num = 0

KpisDone == pc \in {"branch", "gerencia", "clasificacion", "summary", "done"}

MonthlyDone ==
    pc \in {"gerencia", "clasificacion", "summary"} \/ (pc = "done" /\ df_filtered # <<>>)

GerenciaDone ==
    pc \in {"clasificacion", "summary"} \/ (pc = "done" /\ df_filtered # <<>>)

ClasificacionDone == pc = "summary" \/ (pc = "done" /\ df_filtered # <<>>)

SummaryDone == pc = "done" /\ df_filtered # <<>>

\* C5: for a non-empty filtered set, the monthly table ends with a 'Total'
\* row whose value, the sum of the month rows above it, is the KPI
\* total_masa_salarial (the sum of 'Total Mensual' over the filtered rows).
C5_MonthlyTotalIsKpiTotal ==
    MonthlyDone =>
        LET t == masa_mensual_display
            n == Len(t)
        IN  /\ n >= 2
            /\ t[n]["Mes"] = "Total"
            /\ t[n]["Total Mensual"] = SumOver(t, 1..(n - 1), "Total Mensual")
            /\ t[n]["Total Mensual"] = total_masa_salarial
            /\ total_masa_salarial =
                   SumOver(df_filtered, DOMAIN df_filtered, "Total Mensual")

C5_Witness ==
    /\ MonthlyDone
    /\ Len(df_filtered) = 2
    /\ Len(masa_mensual_display) = 3
    /\ masa_mensual_display[1]["Mes"] = "Enero"
    /\ masa_mensual_display[2]["Mes"] = "Abril"
    /\ masa_mensual_display[1]["Total Mensual"] # 0
    /\ masa_mensual_display[2]["Total Mensual"] # 0
    /\ masa_mensual_display[3]["Total Mensual"] = total_masa_salarial

\* C6: the by-department table lists each Gerencia of the filtered set
\* exactly once with the sum of its 'Total Mensual', in non-increasing order
\* of that sum, and ends with one 'Total' row holding the sum of the listed
\* sums.
C6_GerenciaTable ==
    GerenciaDone =>
        LET t == gerencia_data_display
            n == Len(t)
        IN  /\ n >= 2
            /\ t[n]["Gerencia"] = "Total"
            /\ t[n]["Total Mensual"] = SumOver(t, 1..(n - 1), "Total Mensual")
            /\ {t[i]["Gerencia"] : i \in 1..(n - 1)} =
                   Range(Column(df_filtered, "Gerencia"))
            /\ \A i, j \in 1..(n - 1) :
                   /\ i # j => t[i]["Gerencia"] # t[j]["Gerencia"]
                   /\ i < j => t[i]["Total Mensual"] >= t[j]["Total Mensual"]
            /\ \A i \in 1..(n - 1) :
                   t[i]["Total Mensual"] =
                       SumOver(df_filtered, RowsWhere("Gerencia", t[i]["Gerencia"]),
                               "Total Mensual")

C6_Witness ==
    /\ GerenciaDone
    /\ gerencia_data_display =
           << ("Gerencia" :> "Sales") @@ ("Total Mensual" :> 2),
              ("Gerencia" :> "Ops") @@ ("Total Mensual" :> 1),
              ("Gerencia" :> "Total") @@ ("Total Mensual" :> 3) >>

\* C7 (as stated): each classification's 'Porcentaje' is its group sum
\* divided by the sum over all classifications, whatever the sign of that
\* sum, and 0 when that sum is 0.
C7_ShareIsGroupOverTotal ==
    ClasificacionDone =>
        LET total == SumOver(df_filtered, DOMAIN df_filtered, "Total Mensual")
        IN  \A i \in DOMAIN clasificacion_data :
                LET row == clasificacion_data[i]
                    groupSum ==
                        SumOver(df_filtered,
                                RowsWhere("Clasificacion_Ministerio",
                                          row["Clasificacion_Ministerio"]),
                                "Total Mensual")
                IN  IF total = 0 THEN IsZero(row["Porcentaje"])
                    ELSE RatioEquals(row["Porcentaje"], groupSum, total)

\* C8: for a non-empty filtered set, cantidad_empleados is the sum of
\* 'Dotación' over exactly the filtered rows of the greatest month number
\* present, and the label is that month's name.
C8_HeadcountOfLatestMonth ==
    (KpisDone /\ df_filtered # <<>>) =>
        LET latest == MaxOf({df_filtered[i]["Mes_Num"] : i \in DOMAIN df_filtered})
        IN  /\ cantidad_empleados =
                   SumOver(df_filtered, RowsWhere("Mes_Num", latest), "Dotación")
            /\ latest_month_name = meses_es[latest]

C8_Witness ==
    /\ KpisDone
    /\ Len(df_filtered) = 2
    /\ df_filtered[1]["Mes_Num"] = 4 /\ df_filtered[1]["Dotación"] = 1
    /\ df_filtered[2]["Mes_Num"] = 1 /\ df_filtered[2]["Dotación"] = 1
    /\ cantidad_empleados = 1
    /\ latest_month_name = "Abril"

\* C9: costo_medio is total_masa_salarial / cantidad_empleados when the
\* headcount is above 0 and 0 otherwise; it is never the undefined result
\* of a division by zero.
C9_CostoMedioGuarded ==
    KpisDone =>
        /\ ~IsUndefined(costo_medio)
        /\ IF cantidad_empleados > 0
           THEN RatioEquals(costo_medio, total_masa_salarial, cantidad_empleados)
           ELSE IsZero(costo_medio)

C9_Witness ==
    /\ KpisDone
    /\ df_filtered # <<>>
    /\ cantidad_empleados = 0
    /\ total_masa_salarial # 0
    /\ IsZero(costo_medio)

C9_WitnessDivision ==
    /\ KpisDone
    /\ cantidad_empleados = 2
    /\ total_masa_salarial = 3
    /\ costo_medio = [num |-> 3, den |-> 2]

\* C10: with an empty filtered set the total mass, the headcount and the
\* average cost are 0, the month label is "N/A" (no month name), and no
\* aggregate table is produced, so none holds a 'Total' row.
C10_EmptyFilteredSet ==
    (pc = "done" /\ df_filtered = <<>>) =>
        /\ total_masa_salarial = 0
        /\ cantidad_empleados = 0
        /\ IsZero(costo_medio)
        /\ latest_month_name = "N/A"
        /\ ~Contains(meses_es, latest_month_name)
        /\ masa_mensual_display = <<>>
        /\ gerencia_data_display = <<>>
        /\ clasificacion_data = <<>>
        /\ table_display_data = <<>>

C10_Witness ==
    /\ pc = "done"
    /\ df_filtered = <<>>
    /\ latest_month_name = "N/A"

MonthNumber(name) == CHOOSE k \in DOMAIN meses_es : meses_es[k] = name

Classifications == Range(Column(df_filtered, "Clasificacion_Ministerio"))

\* C14: in the cross-tab of a non-empty filtered set the month rows come in
\* ascending month number, one per month of the set; each cell is the sum of
\* its month and classification; each month row's 'Total general' is the sum
\* of its classification cells; the last row is 'Total', holding per
\* classification the sum of the column over the months, and its
\* 'Total general' is the total payroll mass.
C14_CrossTab ==
    SummaryDone =>
        LET t == summary_df_display
            n == Len(t)
            months == 1..(n - 1)
        IN  /\ n >= 2
            /\ \A i \in months : Contains(meses_es, t[i]["Mes"])
            /\ \A i, j \in months :
                   i < j => MonthNumber(t[i]["Mes"]) < MonthNumber(t[j]["Mes"])
            /\ {t[i]["Mes"] : i \in months} = Range(Column(df_filtered, "Mes"))
            /\ \A i \in 1..n :
                   DOMAIN t[i] = {"Mes", "Total general"} \cup Classifications
            /\ \A i \in months : \A c \in Classifications :
                   t[i][c] = SumOver(df_filtered,
                                     RowsWhere("Mes", t[i]["Mes"]) \cap
                                     RowsWhere("Clasificacion_Ministerio", c),
                                     "Total Mensual")
            /\ \A i \in months :
                   t[i]["Total general"] = SumCells(t[i], Classifications)
            /\ t[n]["Mes"] = "Total"
            /\ \A c \in Classifications : t[n][c] = SumOver(t, months, c)
            /\ t[n]["Total general"] = total_masa_salarial
            /\ t[n]["Total general"] =
                   SumOver(df_filtered, DOMAIN df_filtered, "Total Mensual")

\* two months given out of order and two classifications, one cell filled in
C14_Witness ==
    /\ SummaryDone
    /\ Len(df_filtered) = 2
    /\ df_filtered[1]["Mes"] = "Abril"
    /\ df_filtered[2]["Mes"] = "Enero"
    /\ Classifications = {"Convenio", "Jerarquico"}
    /\ Len(summary_df_display) = 3
    /\ summary_df_display[1]["Mes"] = "Enero"
    /\ summary_df_display[1]["Jerarquico"] = 0
    /\ summary_df_display[1]["Convenio"] = 2
    /\ summary_df_display[2]["Jerarquico"] = 1
    /\ summary_df_display[3]["Total general"] = 3

(***************************************************************************)
(* What the load claims speak of, stated on the uploaded sheet.            *)
(***************************************************************************)
LoadSucceeded == phase \in {"loaded", "stopped", "ready", "rerun"} /\ load_error = "none"

FormatPeriod(y, m) ==
    <<Digits[(y \div 1000) + 1], Digits[((y \div 100) % 10) + 1],
      Digits[((y \div 10) % 10) + 1], Digits[(y % 10) + 1], "-",
      Digits[(m \div 10) + 1], Digits[(m % 10) + 1]>>

Years == {2025}

\* the cell is the date, or the text, of month m of year y
Means(cell, y, m) == cell = Timestamp(y, m) \/ cell = Text(FormatPeriod(y, m))

Parseable(cell) == \E y \in Years, m \in 1..12 : Means(cell, y, m)

RawColumn(name) == ColumnIndex(uploaded_file, name)

HasColumn(name) == name \in Range(column_names(uploaded_file))

GoodRows ==
    SelectSeq(uploaded_file.rows, LAMBDA row : Parseable(row[RawColumn("Período")]))

\* C11: after a successful load the records are, in order, the input rows
\* whose period parses; each holds the parsed period, its month as Mes_Num
\* (in 1..12) and the meses_es name of that month as Mes.  Rows whose period
\* fails to parse are absent.
C11_PeriodParsed ==
    LoadSucceeded =>
        /\ Len(df) = Len(GoodRows)
        /\ \A k \in DOMAIN df :
               \E y \in Years, m \in 1..12 :
                   /\ Means(GoodRows[k][RawColumn("Período")], y, m)
                   /\ df[k]["Período"] = Timestamp(y, m)
                   /\ df[k]["Mes_Num"] = m
                   /\ df[k]["Mes"] = meses_es[m]

\* a row 'not-a-date' is dropped and the text '2025-04' after it is kept
C11_Witness ==
    /\ LoadSucceeded
    /\ Len(uploaded_file.rows) = 2
    /\ uploaded_file.rows[1][RawColumn("Período")] = Text(<<"not-a-date">>)
    /\ uploaded_file.rows[2][RawColumn("Período")] =
           Text(<<"2", "0", "2", "5", "-", "0", "4">>)
    /\ Len(df) = 1
    /\ df[1]["Mes"] = "Abril"

Dimensions == {"Gerencia", "Nivel", "Clasificacion_Ministerio", "Relación"}

RawName(dim) ==
    IF dim = "Clasificacion_Ministerio"
    THEN "Clasificación Ministerio de Hacienda"
    ELSE dim

\* the input row holds a value in the dimension
HasValue(row, dim) ==
    /\ HasColumn(RawName(dim))
    /\ LET cell == row[RawColumn(RawName(dim))]
       IN  /\ cell.kind # "nan"
           /\ cell.kind = "str" => strip(cell.pieces) # <<>>

CompleteRows == SelectSeq(GoodRows, LAMBDA row : \A dim \in Dimensions : HasValue(row, dim))

\* C12: after a successful load of a sheet that has the four categorical
\* columns, the records are the input rows (with a parsed period) that hold
\* a value in all four dimensions, and every record holds a real, non-empty,
\* trimmed value in each of them.
C12_MissingDimensionDropped ==
    (LoadSucceeded /\ \A dim \in Dimensions : HasColumn(RawName(dim))) =>
        /\ Len(df) = Len(CompleteRows)
        /\ \A k \in DOMAIN df : \A dim \in Dimensions :
               /\ df[k][dim] \notin {NoDisponible, "", "nan"}
               /\ df[k][dim] =
                      Join(strip(astype_str(CompleteRows[k][RawColumn(RawName(dim))])))

NoPeriodColumn ==
    /\ uploaded_file.sheet = "masa_salarial"
    /\ "Período" \notin Range(column_names(uploaded_file))

\* C13: a sheet without a 'Período' column (after stripping the headers)
\* makes load_data report the error and return the empty record set, and
\* the script stops: no selection is initialised, no KPI computed.
C13_MissingPeriodColumnHalts ==
    (phase # "upload" /\ NoPeriodColumn) =>
        /\ load_error = "periodo"
        /\ df = <<>>
        /\ phase \in {"loaded", "stopped"}
        /\ session_keys = {}
        /\ ms_selections = <<>>
        /\ pc = "idle"
        /\ df_filtered = <<>>

C13_Witness ==
    /\ phase = "stopped"
    /\ NoPeriodColumn
    /\ Len(uploaded_file.rows) = 2
    /\ load_error = "periodo"

(***************************************************************************)
(* What the session claims speak of.                                       *)
(***************************************************************************)
Rendered == phase = "rendered"

\* C15: once the reruns after the first load, or after a click on
\* 'Resetear Filtros', have settled, the filtered record set is the whole
\* normalized record set.
C15_InitialSelectionKeepsAll ==
    (Rendered /\ origin \in {"load", "reset"}) => df_filtered = df

\* C16: on a rendered page (the render pass left ms_selections unchanged)
\* every stored selection is a subset of the options available for its
\* dimension, and the filtered record set, the result of apply_filters on
\* the stored selections, is not empty.
C16_RenderedSelectionsConsistent ==
    Rendered =>
        /\ \A col \in Range(filter_cols) :
               Range(ms_selections[col]) \subseteq
                   Range(get_available_options(df, Items(ms_selections), col))
        /\ df_filtered = apply_filters(df, Items(ms_selections))
        /\ df_filtered # <<>>

\* a change of Gerencia has pruned the stored Ceco selection
C16_Witness ==
    /\ Rendered
    /\ origin = "filter"
    /\ ms_selections["Gerencia"] = <<"Sales">>
    /\ ms_selections["Ceco"] = <<"200">>
    /\ Range(Column(df, "Ceco")) = {"100", "200"}
    /\ Len(df_filtered) < Len(df)

\* C17: whenever the detail table is rendered, page_number is a page of
\* the filtered data and the displayed slice is not empty.
C17_PageInRange ==
    (Rendered /\ df_filtered # <<>>) =>
        /\ num_pages = compute_num_pages(Len(df_filtered))
        /\ 0 <= page_number
        /\ page_number <= num_pages - 1
        /\ start_idx < end_idx

\* C18: a pending rerun leads to a rendered page, and a rerun pass only
\* removes values from the stored selections.
C18_RerunLoopTerminates ==
    /\ (phase = "rerun") ~> Rendered
    /\ [][RerunPass =>
             \A col \in Range(filter_cols) :
                 Range(ms_selections'[col]) \subseteq Range(ms_selections[col])]_vars

\* a user change was followed by a rerun that pruned and another that did not
C18_Witness ==
    /\ Rendered
    /\ origin = "filter"
    /\ ms_selections["Gerencia"] = <<"Ops">>
    /\ ms_selections["Ceco"] = <<"100">>
    /\ Range(Column(df, "Ceco")) = {"100", "200"}
    /\ Len(df) = PAGE_SIZE + 2

====
